---- MODULE Spec2Model ----
(***************************************************************************)
(* A model of the sorted-vec crate: Bucket (src/src/bucket.rs) and         *)
(* SortedVec (src/src/sorted_vec.rs) with its rank iterator                *)
(* (src/src/sorted_vec_iter.rs).  Elements are the integers 1..MaxValue    *)
(* under their usual total order.  Vectors are sequences; the source's     *)
(* zero-based indices are kept, and a vector v is read at index i as       *)
(* v[i + 1].                                                               *)
(***************************************************************************)
EXTENDS Integers, Sequences, FiniteSets

\* Bounds of the model: the element universe and the capacities tried.
MaxValue == 4
MaxCapacity == 3
\* Calls of next() made on an exhausted iterator, and the longest data of a
\* bucket split on its own.
MaxExtraNext == 2
MaxBucketLen == 3
\* The longest vector handed to from_vec.
MaxInputLen == 3

Values == 1..MaxValue
Capacities == 1..MaxCapacity

\* The vectors of at most n elements.
SeqsUpTo(n) == UNION {[1..k -> Values] : k \in 0..n}

VARIABLES
    buckets,              \* SortedVec.buckets: a sequence of Bucket.data sequences
    size,                 \* SortedVec.size
    max_bucket_capacity,  \* SortedVec.configuration.max_bucket_capacity
    overflow_checks,      \* the build: TRUE = overflow checks on (debug), FALSE = release
    panicked,             \* "none", or the panic that ended the program
    last,                 \* history: the last call, its argument and the state it started from
    elems,                \* ghost: the mathematical set the same calls produce
    iter,                 \* the live SortedVecIter (index), with its calls of next() and last result
    unit                  \* a Bucket used on its own: its data and the bucket split() returned

vars == <<buckets, size, max_bucket_capacity, overflow_checks, panicked, last, elems,
          iter, unit>>

----------------------------------------------------------------------------
\* Option<T>
None == <<>>
Some(x) == <<x>>

Min(a, b) == IF a < b THEN a ELSE b

\* T::cmp of a stored element against the probe, as binary_search passes it.
Cmp(elem, item) ==
    IF elem < item THEN "Less" ELSE IF elem > item THEN "Greater" ELSE "Equal"

\* The loop of slice::binary_search_by over the comparator's results cmps
\* (cmps[i + 1] is f(&self[i])): Ok(mid) on the first Equal probe, else
\* Err(left), the insertion point.
RECURSIVE BinarySearchLoop(_, _, _)
BinarySearchLoop(cmps, left, right) ==
    IF left < right
    THEN LET mid == left + ((right - left) \div 2)
             cmp == cmps[mid + 1]
         IN  IF cmp = "Less" THEN BinarySearchLoop(cmps, mid + 1, right)
             ELSE IF cmp = "Greater" THEN BinarySearchLoop(cmps, left, mid)
             ELSE [ok |-> TRUE, idx |-> mid]
    ELSE [ok |-> FALSE, idx |-> left]

\* Vec<T>::binary_search(&item) on a bucket's data.
BinarySearch(data, item) ==
    BinarySearchLoop([i \in 1..Len(data) |-> Cmp(data[i], item)], 0, Len(data))

\* Vec::insert(idx, x) and Vec::remove(idx), zero-based.
VecInsert(v, idx, x) == SubSeq(v, 1, idx) \o <<x>> \o SubSeq(v, idx + 1, Len(v))
VecRemove(v, idx) == SubSeq(v, 1, idx) \o SubSeq(v, idx + 2, Len(v))

----------------------------------------------------------------------------
\* Bucket

\* Bucket::empty
BucketEmpty == <<>>

\* A plausible slip in Bucket::add: the item is pushed at the end, as
\* Bucket::insert does, instead of at the searched position.
BucketAddAppend(data, item) ==
    LET r == BinarySearch(data, item)
    IN  IF r.ok THEN [added |-> FALSE, idx |-> r.idx, data |-> data]
        ELSE [added |-> TRUE, idx |-> r.idx, data |-> Append(data, item)]

\* A plausible slip in Bucket::add: a found item is inserted again.
BucketAddAlways(data, item) ==
    LET r == BinarySearch(data, item)
    IN  [added |-> TRUE, idx |-> r.idx, data |-> VecInsert(data, r.idx, item)]

\* Bucket::add: Duplicated(idx) without mutation, or Added(idx) after
\* inserting at the sorted position.
BucketAdd(data, item) ==
    LET r == BinarySearch(data, item)
    IN  IF r.ok THEN [added |-> FALSE, idx |-> r.idx, data |-> data]
        ELSE [added |-> TRUE, idx |-> r.idx, data |-> VecInsert(data, r.idx, item)]

\* A plausible slip in Bucket::split: the midpoint rounded up.
BucketSplitCeil(data) ==
    LET curr_len == Len(data)
        at == (curr_len + 1) \div 2
    IN  [self |-> SubSeq(data, 1, at),
         other |-> SubSeq(data, at + 1, curr_len)]

\* Bucket::split: self keeps the first len/2 elements, the returned bucket
\* owns the rest.
BucketSplit(data) ==
    LET curr_len == Len(data)
        at == curr_len \div 2
        other_len == curr_len - at
    IN  [self |-> SubSeq(data, 1, at),
         other |-> SubSeq(data, at + 1, at + other_len)]

\* A plausible slip in Bucket::item_compare: the two orderings exchanged.
ItemCompareSwapped(data, item) ==
    IF Len(data) = 0 THEN "Equal"
    ELSE IF item < data[1] THEN "Less"
    ELSE IF data[Len(data)] < item THEN "Greater"
    ELSE "Equal"

\* Bucket::item_compare: the routing decision of a bucket for an item.
ItemCompare(data, item) ==
    IF Len(data) = 0 THEN "Equal"
    ELSE IF item < data[1] THEN "Greater"
    ELSE IF data[Len(data)] < item THEN "Less"
    ELSE "Equal"

----------------------------------------------------------------------------
\* SortedVec

\* The panic message of MaxBucketCapacity::new.
CapacityPanic == "MaxBucketCapacity must be greater than 0"

\* A plausible slip in MaxBucketCapacity::new: the size is not checked.
MaxBucketCapacityNewUnchecked(sz) == [panic |-> "none", value |-> sz]

\* MaxBucketCapacity::new(size): a panic for size < 1, else the capacity.
MaxBucketCapacityNew(sz) ==
    IF sz < 1 THEN [panic |-> CapacityPanic, value |-> 0]
    ELSE [panic |-> "none", value |-> sz]

\* MaxBucketCapacity::default
MaxBucketCapacityDefault == 200

\* SortedVec::empty: no bucket yet, size 0.
SortedVecEmpty == [buckets |-> <<>>, size |-> 0]

\* SortedVec::new: empty, then one empty seed bucket pushed.
SortedVecNew ==
    [buckets |-> Append(SortedVecEmpty.buckets, <<>>), size |-> SortedVecEmpty.size]

\* The derived Default of SortedVec: every field's default, so an empty
\* bucket vector, the default configuration and size 0.
SortedVecDefault ==
    [buckets |-> <<>>, size |-> 0, max_bucket_capacity |-> MaxBucketCapacityDefault]

\* A plausible slip in SortedVec::find_bucket_index: the insertion point is
\* returned without the clamp to the last bucket.
FindBucketIndexNoClamp(bs, item, oc) ==
    LET r == BinarySearchLoop([i \in 1..Len(bs) |-> ItemCompare(bs[i], item)],
                              0, Len(bs))
    IN  [panic |-> "none", idx |-> r.idx]

\* SortedVec::find_bucket_index.  On Err(idx) the source computes
\* min(idx, self.buckets.len() - 1) in usize: with no bucket the subtraction
\* panics when overflow checks are on and wraps to usize::MAX when they are
\* off, where min(idx, usize::MAX) = idx.
FindBucketIndex(bs, item, oc) ==
    LET r == BinarySearchLoop([i \in 1..Len(bs) |-> ItemCompare(bs[i], item)],
                              0, Len(bs))
    IN  IF r.ok THEN [panic |-> "none", idx |-> r.idx]
        ELSE IF Len(bs) = 0
             THEN IF oc THEN [panic |-> "subtract_overflow", idx |-> r.idx]
                  ELSE [panic |-> "none", idx |-> r.idx]
        ELSE [panic |-> "none", idx |-> Min(r.idx, Len(bs) - 1)]

\* A plausible slip in the split test of SortedVec::insert: off by one.
NeedsSplitLate(bucket_len, cap) == bucket_len > cap + 1

\* The split test of SortedVec::insert.
NeedsSplit(bucket_len, cap) == bucket_len > cap

\* SortedVec::insert: the container after the call, or the panic raised by
\* find_bucket_index or by the index expression self.buckets[idx].
SortedVecInsert(bs, sz, cap, oc, item) ==
    LET f == FindBucketIndex(bs, item, oc)
    IN  IF f.panic # "none" THEN [buckets |-> bs, size |-> sz, panic |-> f.panic]
        ELSE IF f.idx >= Len(bs)
             THEN [buckets |-> bs, size |-> sz, panic |-> "index_out_of_bounds"]
        ELSE LET idx == f.idx
                 r == BucketAdd(bs[idx + 1], item)
             IN  IF r.added
                 THEN IF NeedsSplit(Len(r.data), cap)
                      THEN LET sp == BucketSplit(r.data)
                           IN  [buckets |-> VecInsert([bs EXCEPT ![idx + 1] = sp.self],
                                                      idx + 1, sp.other),
                                size |-> sz + 1, panic |-> "none"]
                      ELSE [buckets |-> [bs EXCEPT ![idx + 1] = r.data],
                            size |-> sz + 1, panic |-> "none"]
                 ELSE [buckets |-> bs, size |-> sz, panic |-> "none"]

\* A plausible slip in SortedVec::at: the scan does not subtract the length
\* of the buckets it passes.
RECURSIVE AtScanNoSub(_, _, _)
AtScanNoSub(bs, b, idx) ==
    IF b >= Len(bs) THEN None
    ELSE IF idx < Len(bs[b + 1]) THEN Some(bs[b + 1][idx + 1])
    ELSE AtScanNoSub(bs, b + 1, idx)

\* The loop of SortedVec::at from bucket b on, with idx still to skip.
RECURSIVE AtScan(_, _, _)
AtScan(bs, b, idx) ==
    IF b >= Len(bs) THEN None
    ELSE IF idx < Len(bs[b + 1]) THEN Some(bs[b + 1][idx + 1])
    ELSE AtScan(bs, b + 1, idx - Len(bs[b + 1]))

\* SortedVec::at
At(bs, idx) == AtScan(bs, 0, idx)

\* SortedVec::find_index: Some(bucket_idx, item_idx), None, or a panic.
FindIndex(bs, item, oc) ==
    LET f == FindBucketIndex(bs, item, oc)
    IN  IF f.panic # "none" THEN [panic |-> f.panic, found |-> FALSE]
        ELSE IF f.idx >= Len(bs) THEN [panic |-> "index_out_of_bounds", found |-> FALSE]
        ELSE LET r == BinarySearch(bs[f.idx + 1], item)
             IN  IF r.ok
                 THEN [panic |-> "none", found |-> TRUE,
                       bucket_idx |-> f.idx, item_idx |-> r.idx]
                 ELSE [panic |-> "none", found |-> FALSE]

\* A plausible slip in SortedVec::remove: an emptied bucket is left in the
\* bucket sequence.
SortedVecRemoveKeepBucket(bs, sz, oc, item) ==
    LET f == FindIndex(bs, item, oc)
    IN  IF f.panic # "none" THEN [buckets |-> bs, size |-> sz, panic |-> f.panic]
        ELSE IF f.found
        THEN [buckets |-> [bs EXCEPT ![f.bucket_idx + 1] =
                                         VecRemove(bs[f.bucket_idx + 1], f.item_idx)],
              size |-> sz - 1, panic |-> "none"]
        ELSE [buckets |-> bs, size |-> sz, panic |-> "none"]

\* A plausible slip in SortedVec::remove: size is not decremented.
SortedVecRemoveKeepSize(bs, sz, oc, item) ==
    LET f == FindIndex(bs, item, oc)
    IN  IF f.panic # "none" THEN [buckets |-> bs, size |-> sz, panic |-> f.panic]
        ELSE IF f.found
        THEN LET data == VecRemove(bs[f.bucket_idx + 1], f.item_idx)
             IN  [buckets |-> IF Len(data) = 0 THEN VecRemove(bs, f.bucket_idx)
                              ELSE [bs EXCEPT ![f.bucket_idx + 1] = data],
                  size |-> sz, panic |-> "none"]
        ELSE [buckets |-> bs, size |-> sz, panic |-> "none"]

\* SortedVec::remove
SortedVecRemove(bs, sz, oc, item) ==
    LET f == FindIndex(bs, item, oc)
    IN  IF f.panic # "none" THEN [buckets |-> bs, size |-> sz, panic |-> f.panic]
        ELSE IF f.found
        THEN LET data == VecRemove(bs[f.bucket_idx + 1], f.item_idx)
             IN  [buckets |-> IF Len(data) = 0 THEN VecRemove(bs, f.bucket_idx)
                              ELSE [bs EXCEPT ![f.bucket_idx + 1] = data],
                  size |-> sz - 1, panic |-> "none"]
        ELSE [buckets |-> bs, size |-> sz, panic |-> "none"]

\* SortedVecIter::next, run from the cursor position index until it returns
\* None: the items a full iteration yields.
RECURSIVE IterCollect(_, _, _)
IterCollect(bs, sz, index) ==
    IF index < sz
    THEN LET item == At(bs, index)
         IN  IF item = None THEN <<>>
             ELSE item \o IterCollect(bs, sz, index + 1)
    ELSE <<>>

\* SortedVec::iter, collected.
Iter(bs, sz) == IterCollect(bs, sz, 0)

\* A plausible slip in SortedVec::slice: the range taken as start..=end.
RECURSIVE SliceInclusive(_, _, _)
SliceInclusive(bs, start, end) ==
    IF start <= end
    THEN LET item == At(bs, start)
         IN  (IF item = None THEN <<>> ELSE item) \o SliceInclusive(bs, start + 1, end)
    ELSE <<>>

\* SortedVec::slice: for i in start..end, the items at(i) that are Some.
RECURSIVE Slice(_, _, _)
Slice(bs, start, end) ==
    IF start < end
    THEN LET item == At(bs, start)
         IN  (IF item = None THEN <<>> ELSE item) \o Slice(bs, start + 1, end)
    ELSE <<>>

\* A plausible slip in SortedVecIter::next: the cursor is not advanced.
SortedVecIterNextNoAdvance(bs, sz, index) ==
    IF index < sz
    THEN [item |-> At(bs, index), index |-> index]
    ELSE [item |-> None, index |-> index]

\* SortedVecIter::next: one call with the cursor at index.
SortedVecIterNext(bs, sz, index) ==
    IF index < sz
    THEN [item |-> At(bs, index), index |-> index + 1]
    ELSE [item |-> None, index |-> index]

----------------------------------------------------------------------------
\* The program

\* No iterator is alive: a SortedVecIter borrows the container, so a call of
\* insert or remove ends the life of any iterator.
NoIter == [active |-> FALSE, index |-> 0, calls |-> 0, out |-> None, restarted |-> FALSE]

\* No bucket is used on its own.
NoUnit == [data |-> <<>>, other |-> <<>>, before |-> <<>>, split |-> FALSE]

\* SortedVec::new(configuration): one empty seed bucket, size 0, with a
\* capacity that MaxBucketCapacity::new accepts (>= 1).
Init ==
    /\ \E requested \in Capacities :
          /\ MaxBucketCapacityNew(requested).panic = "none"
          /\ max_bucket_capacity = MaxBucketCapacityNew(requested).value
          /\ last = [op |-> "new", item |-> requested,
                     buckets |-> SortedVecNew.buckets, size |-> SortedVecNew.size]
    /\ overflow_checks \in BOOLEAN
    /\ buckets = SortedVecNew.buckets
    /\ size = SortedVecNew.size
    /\ panicked = "none"
    /\ elems = {}
    /\ iter = NoIter
    /\ unit = NoUnit

\* A call of insert(v).
Insert(v) ==
    /\ panicked = "none"
    /\ LET r == SortedVecInsert(buckets, size, max_bucket_capacity, overflow_checks, v)
       IN  /\ buckets' = r.buckets
           /\ size' = r.size
           /\ panicked' = r.panic
    /\ last' = [op |-> "insert", item |-> v, buckets |-> buckets, size |-> size]
    /\ elems' = elems \cup {v}
    /\ iter' = NoIter
    /\ UNCHANGED <<max_bucket_capacity, overflow_checks, unit>>

\* A call of remove(&v).
Remove(v) ==
    /\ panicked = "none"
    /\ LET r == SortedVecRemove(buckets, size, overflow_checks, v)
       IN  /\ buckets' = r.buckets
           /\ size' = r.size
           /\ panicked' = r.panic
    /\ last' = [op |-> "remove", item |-> v, buckets |-> buckets, size |-> size]
    /\ elems' = elems \ {v}
    /\ iter' = NoIter
    /\ UNCHANGED <<max_bucket_capacity, overflow_checks, unit>>

\* A call of iter(): a new cursor at rank 0.
IterNew ==
    /\ panicked = "none"
    /\ iter' = [active |-> TRUE, index |-> 0, calls |-> 0, out |-> None,
                restarted |-> iter.active /\ iter.calls >= 1]
    /\ UNCHANGED <<buckets, size, max_bucket_capacity, overflow_checks, panicked,
                   last, elems, unit>>

\* A call of next() on the live iterator.
IterNext ==
    /\ panicked = "none"
    /\ iter.active
    /\ iter.calls < size + MaxExtraNext
    /\ LET r == SortedVecIterNext(buckets, size, iter.index)
       IN  iter' = [iter EXCEPT !.index = r.index, !.out = r.item, !.calls = @ + 1]
    /\ UNCHANGED <<buckets, size, max_bucket_capacity, overflow_checks, panicked,
                   last, elems, unit>>

Next ==
    \/ \E v \in Values : Insert(v)
    \/ \E v \in Values : Remove(v)
    \/ IterNew
    \/ IterNext

Spec == Init /\ [][Next]_vars

----------------------------------------------------------------------------
\* The other ways of constructing a container

\* SortedVec::new with the configuration built from MaxBucketCapacity::new(0):
\* construction ends in the panic of MaxBucketCapacity::new, or, were the
\* size accepted, in a seeded container of that capacity.
InitZeroCapacity ==
    /\ LET c == MaxBucketCapacityNew(0)
       IN  /\ panicked = c.panic
           /\ max_bucket_capacity = c.value
           /\ buckets = IF c.panic = "none" THEN SortedVecNew.buckets ELSE <<>>
    /\ last = [op |-> "new", item |-> 0, buckets |-> buckets, size |-> 0]
    /\ overflow_checks \in BOOLEAN
    /\ size = 0
    /\ elems = {}
    /\ iter = NoIter
    /\ unit = NoUnit

\* SortedVec::default()
InitDefault ==
    /\ buckets = SortedVecDefault.buckets
    /\ size = SortedVecDefault.size
    /\ max_bucket_capacity = SortedVecDefault.max_bucket_capacity
    /\ overflow_checks \in BOOLEAN
    /\ panicked = "none"
    /\ last = [op |-> "default", item |-> 0,
               buckets |-> SortedVecDefault.buckets, size |-> SortedVecDefault.size]
    /\ elems = {}
    /\ iter = NoIter
    /\ unit = NoUnit

\* SortedVec::from_vec(input, configuration), the bulk load: the elements
\* of input added to a new container one at a time, in the given order, with
\* the add-or-ignore of insert.
RECURSIVE FromVec(_, _, _)
FromVec(input, cap, oc) ==
    IF Len(input) = 0
    THEN [buckets |-> SortedVecNew.buckets, size |-> SortedVecNew.size, panic |-> "none"]
    ELSE LET sv == FromVec(SubSeq(input, 1, Len(input) - 1), cap, oc)
         IN  IF sv.panic # "none" THEN sv
             ELSE SortedVecInsert(sv.buckets, sv.size, cap, oc, input[Len(input)])

\* SortedVec::from_vec on a vector of at most MaxInputLen elements.
InitFromVec ==
    /\ overflow_checks \in BOOLEAN
    /\ \E requested \in Capacities : \E input \in SeqsUpTo(MaxInputLen) :
          /\ MaxBucketCapacityNew(requested).panic = "none"
          /\ max_bucket_capacity = MaxBucketCapacityNew(requested).value
          /\ LET sv == FromVec(input, max_bucket_capacity, overflow_checks)
             IN  /\ buckets = sv.buckets
                 /\ size = sv.size
                 /\ panicked = sv.panic
          /\ last = [op |-> "from_vec", item |-> requested, input |-> input,
                     buckets |-> SortedVecNew.buckets, size |-> SortedVecNew.size]
          /\ elems = {input[i] : i \in 1..Len(input)}
    /\ iter = NoIter
    /\ unit = NoUnit

\* Every public way of constructing a container.
InitCtor == Init \/ InitZeroCapacity \/ InitDefault \/ InitFromVec

SpecCtor == InitCtor /\ [][Next]_vars

----------------------------------------------------------------------------
\* A bucket used on its own, as the unit tests of bucket.rs use it

\* Bucket::new(data) on a vector of at most MaxBucketLen elements.
InitBucket ==
    /\ \E d \in SeqsUpTo(MaxBucketLen) :
          unit = [data |-> d, other |-> <<>>, before |-> d, split |-> FALSE]
    /\ buckets = SortedVecEmpty.buckets
    /\ size = SortedVecEmpty.size
    /\ max_bucket_capacity = MaxBucketCapacityDefault
    /\ overflow_checks \in BOOLEAN
    /\ panicked = "none"
    /\ last = [op |-> "bucket_new", item |-> 0,
               buckets |-> SortedVecEmpty.buckets, size |-> SortedVecEmpty.size]
    /\ elems = {}
    /\ iter = NoIter

\* A call of split() on the bucket.
BucketSplitCall ==
    /\ LET sp == BucketSplit(unit.data)
       IN  unit' = [data |-> sp.self, other |-> sp.other,
                    before |-> unit.data, split |-> TRUE]
    /\ UNCHANGED <<buckets, size, max_bucket_capacity, overflow_checks, panicked,
                   last, elems, iter>>

NextBucket == BucketSplitCall

SpecBucket == InitBucket /\ [][NextBucket]_vars

----------------------------------------------------------------------------
\* Vocabulary of the properties

\* The elements stored in a bucket sequence.
ElemsOf(bs) == UNION {{bs[i][j] : j \in 1..Len(bs[i])} : i \in 1..Len(bs)}

\* The sum of the lengths of the first n buckets.
RECURSIVE PrefixLen(_, _)
PrefixLen(bs, n) == IF n = 0 THEN 0 ELSE PrefixLen(bs, n - 1) + Len(bs[n])

\* The element of rank k (zero-based) of a finite set of integers, and the
\* ascending enumeration of the set.
Nth(S, k) == CHOOSE x \in S : Cardinality({y \in S : y < x}) = k
Ascending(S) == [i \in 1..Cardinality(S) |-> Nth(S, i - 1)]

\* The bucket sequence read as one sequence, bucket after bucket.
RECURSIVE Flatten(_)
Flatten(bs) == IF Len(bs) = 0 THEN <<>> ELSE Head(bs) \o Flatten(Tail(bs))

\* A sequence without the occurrences of x.
RECURSIVE Without(_, _)
Without(s, x) ==
    IF Len(s) = 0 THEN <<>>
    ELSE IF Head(s) = x THEN Without(Tail(s), x)
    ELSE <<Head(s)>> \o Without(Tail(s), x)

\* The last call was insert or remove of a value stored when it was made.
LastPresent == last.item \in ElemsOf(last.buckets)

----------------------------------------------------------------------------
\* C1: in every reachable state the traversal at(0), ..., at(size-1), which
\* is what iter() yields, is strictly increasing (hence non-decreasing).
C1_Sorted ==
    /\ \A i \in 0..(size - 2) :
          /\ At(buckets, i) # None
          /\ At(buckets, i + 1) # None
          /\ At(buckets, i)[1] < At(buckets, i + 1)[1]
    /\ LET t == Iter(buckets, size)
       IN  \A i \in 1..(Len(t) - 1) : t[i] < t[i + 1]

\* C1 witness: after inserts out of order and a remove, three or more
\* elements are spread over several buckets.
C1_Witness ==
    /\ last.op = "remove"
    /\ size >= 3
    /\ Len(buckets) >= 2
    /\ Len(Iter(buckets, size)) >= 3

\* C2: in every reachable state size equals the sum of the bucket lengths
\* and the number of elements a full iteration returns.
C2_Size ==
    /\ size = PrefixLen(buckets, Len(buckets))
    /\ size = Len(Iter(buckets, size))

\* C2 witness: a remove has just taken an element out of a container of
\* several buckets.
C2_Witness ==
    /\ last.op = "remove"
    /\ size = last.size - 1
    /\ size >= 2
    /\ Len(buckets) >= 2

\* C3: the bucket sequence always has at least one bucket, including after
\* remove takes the last element out of the only remaining bucket.
C3_AtLeastOneBucket == Len(buckets) >= 1

\* C4: insert, remove and find_index return normally for every value:
\* nothing has panicked, and find_bucket_index yields an index strictly
\* below the bucket count.
C4_ReturnNormally ==
    /\ panicked = "none"
    /\ \A v \in Values :
          LET f == FindBucketIndex(buckets, v, overflow_checks)
          IN  f.panic = "none" /\ f.idx < Len(buckets)

\* C5: the traversal equals the ascending enumeration of the set that the
\* same insert and remove calls build from the empty set.
C5_Refines ==
    /\ Iter(buckets, size) = Ascending(elems)
    /\ \A i \in 0..(Cardinality(elems) - 1) :
          At(buckets, i) = Some(Nth(elems, i))

\* C6: insert of a value already present changes nothing: size, the number
\* of buckets and every bucket's content are as before.
C6_DuplicateInsert ==
    (last.op = "insert" /\ LastPresent) =>
        /\ panicked = "none"
        /\ size = last.size
        /\ Len(buckets) = Len(last.buckets)
        /\ buckets = last.buckets

\* C6 witness: a present value was inserted again into a bucket that is
\* at capacity, in a container of several buckets.
C6_Witness ==
    /\ last.op = "insert"
    /\ LastPresent
    /\ Len(last.buckets) >= 2
    /\ \E i \in 1..Len(last.buckets) :
          /\ last.item \in {last.buckets[i][j] : j \in 1..Len(last.buckets[i])}
          /\ Len(last.buckets[i]) = max_bucket_capacity

\* C7: every bucket's length is at most max_bucket_capacity in every
\* reachable state, and the bucket an insert adds to holds at most
\* max_bucket_capacity + 1 elements between the add and the split.
C7_Capacity ==
    /\ \A i \in 1..Len(buckets) : Len(buckets[i]) <= max_bucket_capacity
    /\ \A v \in Values :
          LET f == FindBucketIndex(buckets, v, overflow_checks)
          IN  (f.panic = "none" /\ f.idx < Len(buckets)) =>
                  Len(BucketAdd(buckets[f.idx + 1], v).data) <= max_bucket_capacity + 1

\* C7 witness: an insert has just split a bucket that was at capacity.
C7_Witness ==
    /\ last.op = "insert"
    /\ Len(buckets) = Len(last.buckets) + 1
    /\ \E i \in 1..Len(last.buckets) : Len(last.buckets[i]) = max_bucket_capacity
    /\ max_bucket_capacity >= 2

\* C8: at(index) is the element of rank index when index < size and None
\* exactly when index >= size.
C8_At ==
    \A i \in 0..(MaxValue + 1) :
        /\ (i < size) =>
              /\ i < Cardinality(ElemsOf(buckets))
              /\ At(buckets, i) = Some(Nth(ElemsOf(buckets), i))
        /\ (At(buckets, i) = None) <=> (i >= size)

\* C8 witness: ranks that lie in a second and a third bucket are read.
C8_Witness ==
    /\ Len(buckets) >= 3
    /\ size >= 3
    /\ At(buckets, size - 1) # None
    /\ At(buckets, size) = None

\* C9: for every stored value v, find_index(v) is Some(bucket_idx, item_idx)
\* and at(lengths of the buckets before bucket_idx + item_idx) is v.
C9_RoundTrip ==
    \A v \in ElemsOf(buckets) :
        LET f == FindIndex(buckets, v, overflow_checks)
        IN  /\ f.panic = "none"
            /\ f.found
            /\ At(buckets, PrefixLen(buckets, f.bucket_idx) + f.item_idx) = Some(v)

\* C9 witness: a stored value is found at a position past the first of a
\* bucket past the first.
C9_Witness ==
    \E v \in ElemsOf(buckets) :
        LET f == FindIndex(buckets, v, overflow_checks)
        IN  f.found /\ f.bucket_idx >= 1 /\ f.item_idx >= 1

\* C10: remove(v) returns with the stored set equal to the previous set
\* minus {v}: a present v costs exactly one in size, is no longer found and
\* leaves the others in order; an absent v is a no-op.
C10_Remove ==
    (last.op = "remove") =>
        /\ panicked = "none"
        /\ ElemsOf(buckets) = ElemsOf(last.buckets) \ {last.item}
        /\ LastPresent =>
              /\ size = last.size - 1
              /\ ~FindIndex(buckets, last.item, overflow_checks).found
              /\ Flatten(buckets) = Without(Flatten(last.buckets), last.item)
        /\ ~LastPresent =>
              /\ size = last.size
              /\ buckets = last.buckets

\* The larger and the smaller of two integers, for stating lengths.
Max(a, b) == IF a > b THEN a ELSE b

\* C11: slice(start, end) is exactly the elements of ranks start, ...,
\* min(end, size) - 1 in order, max(0, min(end, size) - start) of them, for
\* every start and end, also when start >= end or start >= size.
C11_Slice ==
    \A start \in 0..(MaxValue + 1) : \A end \in 0..(MaxValue + 2) :
        LET r == Slice(buckets, start, end)
            hi == Min(end, size)
        IN  /\ Len(r) = Max(0, hi - start)
            /\ \A k \in 1..Len(r) :
                  /\ start + k - 1 < Cardinality(ElemsOf(buckets))
                  /\ r[k] = Nth(ElemsOf(buckets), start + k - 1)

\* C11 witness: a slice that starts past the first bucket and asks for more
\* ranks than exist is truncated to the ranks that do.
C11_Witness ==
    /\ Len(buckets) >= 2
    /\ size >= 3
    /\ Len(buckets[1]) = 1
    /\ Len(Slice(buckets, 1, size + 2)) = size - 1
    /\ Slice(buckets, size, size + 2) = <<>>
    /\ Slice(buckets, 2, 1) = <<>>

\* C12: on a container of size n the k-th call of next() on an iterator
\* yields at(k - 1), the element of rank k - 1, for k <= n and None for
\* every k > n; a new iter() starts again at rank 0.
C12_Iterator ==
    iter.active =>
        /\ (iter.calls = 0) => (iter.index = 0)
        /\ (iter.calls >= 1 /\ iter.calls <= size) =>
              /\ iter.out = At(buckets, iter.calls - 1)
              /\ iter.out = Some(Nth(ElemsOf(buckets), iter.calls - 1))
        /\ (iter.calls > size) => (iter.out = None)

\* C12 witness: a second iterator, taken after the first had been used,
\* has yielded all three or more elements and then None twice.
C12_Witness ==
    /\ iter.active
    /\ iter.restarted
    /\ size >= 3
    /\ Len(buckets) >= 2
    /\ iter.calls = size + 2
    /\ iter.out = None

\* C12 witness of the empty case: the first next() on an empty container.
C12_WitnessEmpty == iter.active /\ size = 0 /\ iter.calls = 1 /\ iter.out = None

\* C13: every public way of creating an empty container, SortedVec::new and
\* the derived Default alike, yields exactly one empty bucket and size 0, so
\* that a first insert succeeds.
C13_Seeded ==
    (last.op \in {"new", "default"} /\ panicked = "none") =>
        /\ Len(buckets) = 1
        /\ buckets[1] = <<>>
        /\ size = 0
        /\ \A v \in Values :
              SortedVecInsert(buckets, size, max_bucket_capacity, overflow_checks, v).panic
                  = "none"

\* C14: MaxBucketCapacity::new(size) panics exactly when size is 0 and
\* otherwise yields a capacity equal to size; no constructed container has a
\* max_bucket_capacity below 1, and the default capacity is 200.
C14_Capacity ==
    /\ (last.op = "new") =>
          /\ (panicked = CapacityPanic) <=> (last.item = 0)
          /\ (last.item >= 1) => (max_bucket_capacity = last.item)
    /\ (panicked # CapacityPanic) => (max_bucket_capacity >= 1)
    /\ (last.op = "default") => (max_bucket_capacity = 200)

\* C14 witness: construction with size 0 has been aborted by the panic of
\* MaxBucketCapacity::new.
C14_Witness ==
    /\ last.op = "new"
    /\ last.item = 0
    /\ panicked = CapacityPanic
    /\ buckets = <<>>

C16_Split ==
    unit.split =>
        LET d == unit.before
            N == Len(d)
        IN  /\ Len(unit.data) = N \div 2
            /\ Len(unit.other) = N - (N \div 2)
            /\ \A i \in 1..Len(unit.data) : unit.data[i] = d[i]
            /\ \A i \in 1..Len(unit.other) : unit.other[i] = d[(N \div 2) + i]
            /\ unit.data \o unit.other = d
            /\ (N = 0) => (unit.data = <<>> /\ unit.other = <<>>)

\* C16 witness: a bucket of odd length three has been split into one and
\* two elements.
C16_Witness ==
    /\ unit.split
    /\ Len(unit.before) = 3
    /\ Len(unit.data) = 1
    /\ Len(unit.other) = 2

\* C16 witness of the empty case: an empty bucket has been split.
C16_WitnessEmpty == unit.split /\ unit.before = <<>> /\ unit.other = <<>>

\* C17: each bucket is sorted ascending and, for adjacent buckets i and
\* i + 1, every element of bucket i is <= every element of bucket i + 1.
C17_BucketOrder ==
    /\ \A i \in 1..Len(buckets) : \A j \in 1..(Len(buckets[i]) - 1) :
          buckets[i][j] <= buckets[i][j + 1]
    /\ \A i \in 1..(Len(buckets) - 1) :
          \A j \in 1..Len(buckets[i]) : \A k \in 1..Len(buckets[i + 1]) :
              buckets[i][j] <= buckets[i + 1][k]

\* C17 witness: several buckets, one of them with several elements, after
\* inserts and a remove.
C17_Witness ==
    /\ last.op = "remove"
    /\ size >= 3
    /\ Len(buckets) >= 2
    /\ \E i \in 1..Len(buckets) : Len(buckets[i]) >= 2

\* C18: at most one bucket is empty, and an empty bucket exists only as the
\* single seed bucket of a container of size 0, never next to a non-empty
\* bucket.
C18_EmptyBucket ==
    /\ Cardinality({i \in 1..Len(buckets) : Len(buckets[i]) = 0}) <= 1
    /\ \A i \in 1..Len(buckets) :
          (Len(buckets[i]) = 0) => (Len(buckets) = 1 /\ size = 0)

\* C18 witness: remove has emptied one bucket of several and deleted it.
C18_Witness ==
    /\ last.op = "remove"
    /\ Len(last.buckets) >= 2
    /\ Len(buckets) = Len(last.buckets) - 1
    /\ size >= 1

\* C19: insert of an absent value adds one to size; it adds exactly one
\* bucket, at position idx + 1 right after the bucket it was split from,
\* when and only when the target bucket's length after the add exceeds
\* max_bucket_capacity, and leaves the bucket count alone otherwise.
C19_InsertAbsent ==
    (last.op = "insert" /\ ~LastPresent) =>
        /\ panicked = "none"
        /\ size = last.size + 1
        /\ LET f == FindBucketIndex(last.buckets, last.item, overflow_checks)
           IN  /\ f.idx < Len(last.buckets)
               /\ LET idx == f.idx
                      added == BucketAdd(last.buckets[idx + 1], last.item).data
                  IN  /\ (Len(buckets) = Len(last.buckets) + 1)
                             <=> (Len(added) > max_bucket_capacity)
                      /\ (Len(added) <= max_bucket_capacity) =>
                             /\ Len(buckets) = Len(last.buckets)
                             /\ buckets = [last.buckets EXCEPT ![idx + 1] = added]
                      /\ (Len(added) > max_bucket_capacity) =>
                             /\ buckets[idx + 1] \o buckets[idx + 2] = added
                             /\ Len(buckets[idx + 1]) = Len(added) \div 2
                             /\ \A i \in 1..idx : buckets[i] = last.buckets[i]
                             /\ \A i \in (idx + 2)..Len(last.buckets) :
                                    buckets[i + 1] = last.buckets[i]

\* The buckets (zero-based) whose [first, last] range holds v; an empty
\* bucket holds every v.
Containing(bs, v) ==
    {i \in 0..(Len(bs) - 1) :
        \/ Len(bs[i + 1]) = 0
        \/ bs[i + 1][1] <= v /\ v <= bs[i + 1][Len(bs[i + 1])]}

\* The index of the first bucket whose first element is greater than v, or
\* the bucket count when there is none.
InsertionPoint(bs, v) ==
    LET G == {i \in 0..(Len(bs) - 1) : Len(bs[i + 1]) > 0 /\ bs[i + 1][1] > v}
    IN  IF G = {} THEN Len(bs) ELSE CHOOSE i \in G : \A j \in G : i <= j

\* C20: with at least one bucket, find_bucket_index(v) is the bucket
\* whose range holds v when there is one, and otherwise the insertion point
\* clamped to bucket_count - 1: bucket 0 for a v below every element, the
\* last bucket for a v above every element.
C20_FindBucketIndex ==
    (Len(buckets) >= 1) =>
        \A v \in Values :
            LET f == FindBucketIndex(buckets, v, overflow_checks)
                all == ElemsOf(buckets)
            IN  /\ f.panic = "none"
                /\ (Containing(buckets, v) # {}) => (f.idx \in Containing(buckets, v))
                /\ (Containing(buckets, v) = {}) =>
                       (f.idx = Min(InsertionPoint(buckets, v), Len(buckets) - 1))
                /\ (all # {} /\ \A x \in all : v < x) => (f.idx = 0)
                /\ (all # {} /\ \A x \in all : v > x) => (f.idx = Len(buckets) - 1)

\* C20 witness: one value falls in the gap between two buckets and routes
\* to the later one, another lies above every element and is clamped to the
\* last bucket.
C20_Witness ==
    /\ Len(buckets) >= 2
    /\ \E v \in Values :
          /\ Containing(buckets, v) = {}
          /\ InsertionPoint(buckets, v) >= 1
          /\ InsertionPoint(buckets, v) < Len(buckets)
    /\ \E w \in Values :
          /\ \A x \in ElemsOf(buckets) : w > x
          /\ InsertionPoint(buckets, w) = Len(buckets)

====
